---- MODULE Spec2Model ----
(***************************************************************************)
(* Model of the EPUB question/answer extractor: src/extract_qa.py (the     *)
(* generic heading/title signature) and src/extract_qa_chinese.py (the     *)
(* book-specific literal-class signature).                                 *)
(*                                                                         *)
(* A Python str is modelled as a sequence of code points, each code point  *)
(* a one-element string; the full-width question mark U+FF1F is written    *)
(* "U+FF1F" and is a single code point, different from the ASCII "?".      *)
(***************************************************************************)
EXTENDS Naturals, Sequences, FiniteSets

VARIABLES variant, pc, text, cleaned, recleaned, doc, fail, qa_pairs, walks,
          book, idx, fails, invoked, all_qa_pairs, writes, log

vars == <<variant, pc, text, cleaned, recleaned, doc, fail, qa_pairs, walks,
          book, idx, fails, invoked, all_qa_pairs, writes, log>>

(***************************************************************************)
(* Bounds of the model.                                                    *)
(***************************************************************************)
MaxLen == 4
MaxNodes == 3
MaxItems == 3

(***************************************************************************)
(* The two programs.                                                       *)
(***************************************************************************)
Generic == "extract_qa.py"
Chinese == "extract_qa_chinese.py"
Variants == {Generic, Chinese}

None == "None"
NoFail == <<>>

(***************************************************************************)
(* Python str primitives.                                                  *)
(***************************************************************************)
FWQ == "U+FF1F"

\* str.isspace() / the regular expression class \s, on the code points used
IsSpace(c) == c \in {" ", "\t", "\n", "\r", "\f"}

\* str.lower(), code point by code point: the upper-case letters and what
\* each becomes
LowerCase ==
    [ A |-> "a", B |-> "b", C |-> "c", D |-> "d", E |-> "e", F |-> "f", G |-> "g",
      H |-> "h", I |-> "i", J |-> "j", K |-> "k", L |-> "l", M |-> "m", N |-> "n",
      O |-> "o", P |-> "p", Q |-> "q", R |-> "r", S |-> "s", T |-> "t", U |-> "u",
      V |-> "v", W |-> "w", X |-> "x", Y |-> "y", Z |-> "z" ]

LowerChar(c) == IF c \in DOMAIN LowerCase THEN LowerCase[c] ELSE c

Lower(s) == [k \in 1..Len(s) |-> LowerChar(s[k])]

\* sub in s, scanning the start positions from the left
RECURSIVE FindFrom(_, _, _)
FindFrom(sub, s, k) ==
    IF k + Len(sub) - 1 > Len(s) THEN FALSE
    ELSE IF SubSeq(s, k, k + Len(sub) - 1) = sub THEN TRUE
    ELSE FindFrom(sub, s, k + 1)

StrIn(sub, s) == FindFrom(sub, s, 1)

\* s.endswith(suffix)
EndsWith(s, suffix) ==
    /\ Len(suffix) <= Len(s)
    /\ SubSeq(s, Len(s) - Len(suffix) + 1, Len(s)) = suffix

\* sep.join(parts)
RECURSIVE StrJoin(_, _)
StrJoin(sep, parts) ==
    IF parts = <<>> THEN <<>>
    ELSE IF Len(parts) = 1 THEN parts[1]
    ELSE parts[1] \o sep \o StrJoin(sep, Tail(parts))

\* re.sub(r'\s+', ' ', s): every maximal run of whitespace becomes one space
RECURSIVE SubWhitespace(_, _)
SubWhitespace(s, inRun) ==
    IF s = <<>> THEN <<>>
    ELSE IF IsSpace(Head(s))
         THEN (IF inRun THEN <<>> ELSE <<" ">>) \o SubWhitespace(Tail(s), TRUE)
         ELSE <<Head(s)>> \o SubWhitespace(Tail(s), FALSE)

RECURSIVE LStrip(_)
LStrip(s) ==
    IF s # <<>> /\ IsSpace(Head(s)) THEN LStrip(Tail(s)) ELSE s

RECURSIVE RStrip(_)
RStrip(s) ==
    IF s # <<>> /\ IsSpace(s[Len(s)]) THEN RStrip(SubSeq(s, 1, Len(s) - 1)) ELSE s

\* str.strip()
Strip(s) == RStrip(LStrip(s))

\* A plausible slip: the pattern \s instead of \s+ (no collapsing of runs).
clean_text_each(s) ==
    Strip([k \in 1..Len(s) |-> IF IsSpace(s[k]) THEN " " ELSE s[k]])

clean_text(s) == Strip(SubWhitespace(s, FALSE))


(***************************************************************************)
(* String literals of the two programs.                                    *)
(***************************************************************************)
S_heading == <<"h","e","a","d","i","n","g">>
S_title == <<"t","i","t","l","e">>
S_second_title == <<"b","o","d","y","c","o","n","t","e","n","t","-","s","e","c","o","n","d","-","t","i","t","l","e">>
S_second_title1 == <<"b","o","d","y","c","o","n","t","e","n","t","-","s","e","c","o","n","d","-","t","i","t","l","e","1">>
S_bodycontent_text == <<"b","o","d","y","c","o","n","t","e","n","t","-","t","e","x","t">>
S_nav == <<"n","a","v">>
S_toc == <<"t","o","c">>
S_content_opf == <<"c","o","n","t","e","n","t",".","o","p","f">>
S_cover == <<"c","o","v","e","r">>

(***************************************************************************)
(* The parsed document (the BeautifulSoup tree) as a node store in         *)
(* document order.  A node is [name, class, text, parent]: name is the tag *)
(* name, or None for a NavigableString; class is the list of class tokens  *)
(* (empty when the attribute is absent: current.get('class', []));  text   *)
(* is what get_text() returns for the node; parent is the index of the     *)
(* enclosing element, 0 for the top level.                                 *)
(***************************************************************************)
Elem(n, c, t) == [name |-> n, class |-> c, text |-> t, parent |-> 0]

H2q == Elem("h2", <<S_second_title>>, <<" ","a",FWQ,"\n">>)
H3n == Elem("h3", <<<<"s","u","b">>, S_second_title1>>, <<"a"," "," ","b">>)
H4g == Elem("h4", <<<<"H","e","a","d","i","n","g">>>>, <<"c",FWQ>>)
H2s == Elem("h2", <<S_second_title>>, <<" ",FWQ," ">>)
Pbody == Elem("p", <<S_bodycontent_text>>, <<" ","x"," ","\n","y"," ">>)
Pbody2 == Elem("p", <<<<"l","e","a","d">>, S_bodycontent_text>>, <<"w">>)
Pplain == Elem("p", <<<<"b","o","d","y","c","o","n","t","e","n","t","-","t","e","x","t","1">>>>, <<"z">>)
Pempty == Elem("p", <<S_bodycontent_text>>, <<" ","\n">>)
Div == Elem("div", <<>>, <<>>)
Text == Elem(None, <<>>, <<"\n">>)

NodeShapes == {H2q, H3n, H4g, H2s, Pbody, Pbody2, Pplain, Pempty, Div, Text}

\* the ancestors of node i lie before it; a node's parent is a div
RECURSIVE IsAncestor(_, _, _)
IsAncestor(d, a, i) ==
    IF i = 0 THEN FALSE
    ELSE d[i].parent = a \/ IsAncestor(d, a, d[i].parent)

\* the open elements after the last node of d: where the next node may go
OpenParents(d) ==
    {0} \cup { i \in 1..Len(d) :
                  /\ d[i].name = "div"
                  /\ \A j \in (i + 1)..Len(d) : IsAncestor(d, i, j) }

\* every tree of n nodes over NodeShapes, in document order
RECURSIVE Trees(_)
Trees(n) ==
    IF n = 0 THEN { <<>> }
    ELSE { Append(d, [s EXCEPT !.parent = p]) :
              <<d, s, p>> \in { t \in Trees(n - 1) \X NodeShapes \X (0..(n - 1)) :
                                  t[3] \in OpenParents(t[1]) } }

In(s, p) == [s EXCEPT !.parent = p]

\* heading, two paragraphs, heading, paragraph, all at the top level
SectionsDoc == <<H2q, Pbody, Pbody2, H2q, Pbody2>>

\* a paragraph, then a div holding two sections with a text node, a paragraph
\* of another class and a nested div between heading and answer, then a
\* paragraph after the div
NestedDoc ==
    <<Pbody, Div, In(H3n, 2), In(Text, 2), In(Pplain, 2), In(Div, 2), In(Pbody, 6),
      In(Pbody2, 2), In(H4g, 2), In(Pbody, 2), Pbody2>>

ExampleDocs == {SectionsDoc, NestedDoc}

Docs == UNION { Trees(n) : n \in 0..MaxNodes } \cup ExampleDocs

(***************************************************************************)
(* extract_qa_from_html                                                    *)
(***************************************************************************)
HeadingTags(v) == IF v = Generic THEN {"h4", "h3", "h2"} ELSE {"h3", "h2"}

\* the class_ predicate handed to find_all, applied to one string x
ClassLambda(v, x) ==
    /\ x # <<>>
    /\ IF v = Generic
       THEN StrIn(S_heading, Lower(x)) \/ StrIn(S_title, Lower(x))
       ELSE StrIn(S_second_title, x) \/ StrIn(S_second_title1, x)

\* soup.find_all(tags, class_=f) keeps a tag of one of the names when f holds
\* of one of its class tokens or of the whole attribute value; f(None) is
\* false for a tag without the attribute
FindAllMatches(v, node) ==
    /\ node.name \in HeadingTags(v)
    /\ node.class # <<>>
    /\ \/ \E k \in 1..Len(node.class) : ClassLambda(v, node.class[k])
       \/ ClassLambda(v, StrJoin(<<" ">>, node.class))

\* questions: the indices of the matching tags, in document order
find_all(v, d) ==
    SelectSeq([i \in 1..Len(d) |-> i], LAMBDA i : FindAllMatches(v, d[i]))

\* the break condition of the sibling walk: current is the next question
IsNextQuestion(v, node) ==
    /\ node.name \in HeadingTags(v)
    /\ \E k \in 1..Len(node.class) :
          IF v = Generic
          THEN StrIn(S_heading, Lower(node.class[k])) \/ StrIn(S_title, Lower(node.class[k]))
          ELSE StrIn(S_second_title, node.class[k])

\* A plausible slip: the answer-body class filter left out of the strict walk.
IsAnswerParagraphAnyClass(v, node) == node.name = "p"

\* the condition under which the walk reads a sibling as an answer paragraph
IsAnswerParagraph(v, node) ==
    IF v = Generic
    THEN node.name = "p"
    ELSE node.name = "p" /\ \E k \in 1..Len(node.class) : node.class[k] = S_bodycontent_text

\* current.next_sibling: the next node with the same parent, 0 for None
next_sibling(d, i) ==
    LET later == { j \in (i + 1)..Len(d) : d[j].parent = d[i].parent }
    IN  IF later = {} THEN 0
        ELSE CHOOSE j \in later : \A k \in later : j <= k

\* A plausible slip: the admissibility filter of the other variant.
IsSkippedSwapped(v, question_text) ==
    \/ question_text = <<>>
    \/ Len(question_text) < 2
    \/ v = Chinese /\ ~EndsWith(question_text, <<FWQ>>)

\* A plausible slip: the length test left out.
IsSkippedAnyLength(v, question_text) ==
    \/ question_text = <<>>
    \/ v = Generic /\ ~EndsWith(question_text, <<FWQ>>)

\* the `continue` condition on the cleaned heading text
IsSkipped(v, question_text) ==
    \/ question_text = <<>>
    \/ Len(question_text) < 2
    \/ v = Generic /\ ~EndsWith(question_text, <<FWQ>>)

\* A plausible slip: the walk goes on past the next question.
RECURSIVE WalkNoBreak(_, _, _, _)
WalkNoBreak(v, d, current, acc) ==
    IF current = 0 THEN acc
    ELSE WalkNoBreak(v, d, next_sibling(d, current),
              IF /\ IsAnswerParagraph(v, d[current])
                 /\ clean_text(d[current].text) # <<>>
              THEN Append(acc, current) ELSE acc)

\* the while loop over the following siblings: the indices of the paragraphs
\* whose text is appended to answer_paragraphs
RECURSIVE Walk(_, _, _, _)
Walk(v, d, current, acc) ==
    IF current = 0 THEN acc
    ELSE IF IsNextQuestion(v, d[current]) THEN acc
    ELSE Walk(v, d, next_sibling(d, current),
              IF /\ IsAnswerParagraph(v, d[current])
                 /\ clean_text(d[current].text) # <<>>
              THEN Append(acc, current) ELSE acc)

\* the for loop over questions from the k-th on; f = <<j>> is an exception
\* raised in the iteration after j completed ones, f = NoFail is none.  Each
\* appended pair is kept with the heading and the paragraphs it came from.
RECURSIVE ForQuestions(_, _, _, _, _, _)
ForQuestions(v, d, questions, k, f, acc) ==
    IF k > Len(questions) THEN acc
    ELSE IF f = <<k - 1>> THEN acc
    ELSE LET q == questions[k]
             question_text == clean_text(d[q].text)
             paragraphs == Walk(v, d, next_sibling(d, q), <<>>)
             answer_paragraphs ==
                 [n \in 1..Len(paragraphs) |-> clean_text(d[paragraphs[n]].text)]
             answer == StrJoin(<<"\n">>, answer_paragraphs)
         IN  IF IsSkipped(v, question_text)
             THEN ForQuestions(v, d, questions, k + 1, f, acc)
             ELSE IF question_text # <<>> /\ answer # <<>>
             THEN ForQuestions(v, d, questions, k + 1, f,
                      Append(acc, [heading |-> q, paragraphs |-> paragraphs,
                                   question |-> question_text, answer |-> answer]))
             ELSE ForQuestions(v, d, questions, k + 1, f, acc)

\* A plausible slip: the except clause of the other reading, which drops what
\* the document has produced so far.
extract_trace_reset(v, d, f) ==
    IF f # NoFail THEN <<>>
    ELSE ForQuestions(v, d, find_all(v, d), 1, f, <<>>)

\* the body of extract_qa_from_html on the parsed document d: qa_pairs at the
\* return, whether reached normally or through the except clause
extract_trace(v, d, f) ==
    LET questions == find_all(v, d)
    IN  IF f = <<0>> THEN <<>>
        ELSE IF questions = <<>> THEN <<>>
        ELSE ForQuestions(v, d, questions, 1, f, <<>>)

Pairs(trace) ==
    [n \in 1..Len(trace) |-> [question |-> trace[n].question, answer |-> trace[n].answer]]

Sources(trace) ==
    [n \in 1..Len(trace) |-> [heading |-> trace[n].heading, paragraphs |-> trace[n].paragraphs]]

extract_qa_from_html(v, d, f) == Pairs(extract_trace(v, d, f))

\* where an exception can be raised inside the try block: in the parse or the
\* search (no iteration completed), or in a later iteration of the for loop
FailPoints(v, d) ==
    {NoFail, <<0>>} \cup { <<j>> : j \in 1..(Len(find_all(v, d)) - 1) }

(***************************************************************************)
(* Specification of one call of extract_qa_from_html.                      *)
(***************************************************************************)
Idle ==
    /\ text = <<>> /\ cleaned = <<>> /\ recleaned = <<>>
    /\ doc = <<>> /\ fail = NoFail /\ qa_pairs = <<>> /\ walks = <<>>
    /\ book = <<>> /\ idx = 0 /\ fails = <<>> /\ invoked = <<>>
    /\ all_qa_pairs = <<>> /\ writes = <<>> /\ log = <<>>

InitHtml ==
    /\ variant \in Variants
    /\ pc = "extract_qa_from_html"
    /\ doc \in Docs
    /\ text = <<>> /\ cleaned = <<>> /\ recleaned = <<>>
    /\ fail = NoFail /\ qa_pairs = <<>> /\ walks = <<>>
    /\ book = <<>> /\ idx = 0 /\ fails = <<>> /\ invoked = <<>>
    /\ all_qa_pairs = <<>> /\ writes = <<>> /\ log = <<>>

ExtractQaFromHtml ==
    /\ pc = "extract_qa_from_html"
    /\ \E f \in FailPoints(variant, doc) :
          LET trace == extract_trace(variant, doc, f)
          IN  /\ fail' = f
              /\ qa_pairs' = Pairs(trace)
              /\ walks' = Sources(trace)
              /\ log' = IF f = NoFail THEN log ELSE Append(log, "html error")
    /\ pc' = "returned"
    /\ UNCHANGED <<variant, text, cleaned, recleaned, doc, book, idx, fails,
                   invoked, all_qa_pairs, writes>>

NextHtml == ExtractQaFromHtml

SpecHtml == InitHtml /\ [][NextHtml]_vars

(***************************************************************************)
(* Specification of clean_text: the input is any string of at most MaxLen  *)
(* code points over CleanChars, or the documented example; clean_text is   *)
(* applied to it, then to its own result, and then extract_qa_from_html    *)
(* runs on a document whose heading and paragraph both carry the input.    *)
(***************************************************************************)
CleanChars == {"a", " ", "\n", "\t", FWQ}

RECURSIVE Strings(_)
Strings(n) ==
    IF n = 0 THEN { <<>> }
    ELSE Strings(n - 1) \cup
         { Append(s, c) : <<s, c>> \in { t \in Strings(n - 1) : Len(t) = n - 1 } \X CleanChars }

ExampleText == <<" ", "a", " ", "\n", "\n", " ", "b", " ">>

TextInputs == Strings(MaxLen) \cup {ExampleText}

TextDoc(t) ==
    <<Elem("h2", <<S_second_title>>, t), Elem("p", <<S_bodycontent_text>>, t)>>

InitClean ==
    /\ variant \in Variants
    /\ pc = "clean_text"
    /\ text \in TextInputs
    /\ doc = TextDoc(text)
    /\ cleaned = <<>> /\ recleaned = <<>>
    /\ fail = NoFail /\ qa_pairs = <<>> /\ walks = <<>>
    /\ book = <<>> /\ idx = 0 /\ fails = <<>> /\ invoked = <<>>
    /\ all_qa_pairs = <<>> /\ writes = <<>> /\ log = <<>>

CleanText ==
    /\ pc = "clean_text"
    /\ cleaned' = clean_text(text)
    /\ pc' = "clean_text again"
    /\ UNCHANGED <<variant, text, recleaned, doc, fail, qa_pairs, walks, book, idx,
                   fails, invoked, all_qa_pairs, writes, log>>

CleanTextAgain ==
    /\ pc = "clean_text again"
    /\ recleaned' = clean_text(cleaned)
    /\ pc' = "extract_qa_from_html"
    /\ UNCHANGED <<variant, text, cleaned, doc, fail, qa_pairs, walks, book, idx,
                   fails, invoked, all_qa_pairs, writes, log>>

NextClean == CleanText \/ CleanTextAgain \/ ExtractQaFromHtml

SpecClean == InitClean /\ [][NextClean]_vars

(***************************************************************************)
(* The package: items as book.get_items() yields them.  An item is its     *)
(* type, its name, whether its content is valid UTF-8, and the tree its    *)
(* content parses to.                                                      *)
(***************************************************************************)
ITEM_DOCUMENT == "ITEM_DOCUMENT"
ITEM_IMAGE == "ITEM_IMAGE"

Item(t, n, u, d) == [type |-> t, name |-> n, utf8 |-> u, tree |-> d]

OnePairDoc == <<H2q, Pbody>>
TwoPairDoc == <<H2q, Pbody2, H2q, Pbody2, Pbody>>
NoHeadingDoc == <<Pbody>>

ChapterA == Item(ITEM_DOCUMENT, <<"c","h","1",".","x","h","t","m","l">>, TRUE, OnePairDoc)
ChapterB == Item(ITEM_DOCUMENT, <<"c","h","2",".","h","t","m","l">>, TRUE, TwoPairDoc)
Preface == Item(ITEM_DOCUMENT, <<"p","r","e","f","a","c","e",".","h","t","m","l">>, TRUE, NoHeadingDoc)
Broken == Item(ITEM_DOCUMENT, <<"c","h","3",".","h","t","m","l">>, FALSE, <<>>)
NavPage == Item(ITEM_DOCUMENT, <<"N","A","V",".","x","h","t","m","l">>, TRUE, OnePairDoc)
TocPage == Item(ITEM_DOCUMENT, <<"T","e","x","t","/","t","o","c",".","x","h","t","m","l">>, TRUE, OnePairDoc)
Manifest == Item(ITEM_DOCUMENT, <<"c","o","n","t","e","n","t",".","o","p","f">>, TRUE, OnePairDoc)
CoverPage == Item(ITEM_DOCUMENT, <<"C","o","v","e","r",".","x","h","t","m","l">>, TRUE, OnePairDoc)
Picture == Item(ITEM_IMAGE, <<"c","h","1",".","p","n","g">>, FALSE, <<>>)

Items == {ChapterA, ChapterB, Preface, Broken, NavPage, TocPage, Manifest, CoverPage, Picture}

RECURSIVE BooksOf(_)
BooksOf(n) ==
    IF n = 0 THEN { <<>> }
    ELSE BooksOf(n - 1) \cup
         { Append(b, i) : <<b, i>> \in { t \in BooksOf(n - 1) : Len(t) = n - 1 } \X Items }

Books == BooksOf(MaxItems)

ExclusionList == <<S_nav, S_toc, S_content_opf, S_cover>>

\* A plausible slip: the name compared without .lower().
is_content_item_cased(item) ==
    /\ item.type = ITEM_DOCUMENT
    /\ ~\E k \in 1..Len(ExclusionList) : StrIn(ExclusionList[k], item.name)

is_content_item(item) ==
    IF item.type = ITEM_DOCUMENT
    THEN LET filename == Lower(item.name)
         IN  IF \E k \in 1..Len(ExclusionList) : StrIn(ExclusionList[k], filename)
             THEN FALSE
             ELSE TRUE
    ELSE FALSE

\* A plausible slip: extend at the front.
ExtendFront(all, pairs) == pairs \o all

\* all_qa_pairs.extend(qa_pairs)
Extend(all, pairs) == all \o pairs

\* A plausible slip: break instead of continue in the per-item except clause.
AbortLoop(i, n) == n + 1

\* the per-item except clause: log, continue with the next item
ContinueLoop(i, n) == i + 1

\* A plausible slip: the file is written whatever the pairs are, in both programs.
ShouldSaveAlways(v, pairs) == TRUE

\* main: extract_qa.py always saves; extract_qa_chinese.py saves `if qa_pairs`
ShouldSave(v, pairs) == v = Generic \/ pairs # <<>>

(***************************************************************************)
(* Specification of a run of main().                                       *)
(***************************************************************************)
Init ==
    /\ variant \in Variants
    /\ pc = "main"
    /\ Idle

\* read_epub: the package opens, or the error is logged and re-raised up to
\* main, which logs it and ends
ReadEpub ==
    /\ pc = "main"
    /\ \/ \E b \in Books :
             /\ book' = b
             /\ idx' = 1
             /\ log' = Append(log, "read_epub ok")
             /\ pc' = "for item"
       \/ /\ log' = log \o <<"read_epub error", "main error">>
          /\ pc' = "done"
          /\ UNCHANGED <<book, idx>>
    /\ UNCHANGED <<variant, text, cleaned, recleaned, doc, fail, qa_pairs, walks,
                   fails, invoked, all_qa_pairs, writes>>

\* one iteration of `for item in book.get_items()`
ProcessItem ==
    /\ pc = "for item"
    /\ idx <= Len(book)
    /\ LET item == book[idx]
       IN  IF ~is_content_item(item)
           THEN /\ idx' = idx + 1
                /\ fails' = Append(fails, NoFail)
                /\ UNCHANGED <<invoked, all_qa_pairs, log, doc, qa_pairs>>
           ELSE IF ~item.utf8
           THEN /\ idx' = ContinueLoop(idx, Len(book))
                /\ fails' = Append(fails, NoFail)
                /\ invoked' = Append(invoked, idx)
                /\ log' = Append(log, "item error")
                /\ UNCHANGED <<all_qa_pairs, doc, qa_pairs>>
           ELSE \E f \in FailPoints(variant, item.tree) :
                  /\ doc' = item.tree
                  /\ qa_pairs' = extract_qa_from_html(variant, item.tree, f)
                  /\ all_qa_pairs' = IF qa_pairs' # <<>>
                                     THEN Extend(all_qa_pairs, qa_pairs')
                                     ELSE all_qa_pairs
                  /\ idx' = idx + 1
                  /\ fails' = Append(fails, f)
                  /\ invoked' = Append(invoked, idx)
                  /\ log' = IF f = NoFail THEN log ELSE Append(log, "html error")
    /\ UNCHANGED <<variant, pc, text, cleaned, recleaned, fail, walks, book, writes>>

\* main after extract_qa_from_epub has returned: save_qa_to_json, whose write
\* succeeds, or fails with the error logged and re-raised to main
SaveQaToJson ==
    /\ pc = "for item"
    /\ idx > Len(book)
    /\ ShouldSave(variant, all_qa_pairs)
    /\ \/ /\ writes' = Append(writes, [array |-> all_qa_pairs, ok |-> TRUE])
          /\ log' = Append(log, "saved")
       \/ /\ writes' = Append(writes, [array |-> all_qa_pairs, ok |-> FALSE])
          /\ log' = log \o <<"save error", "main error">>
    /\ pc' = "done"
    /\ UNCHANGED <<variant, text, cleaned, recleaned, doc, fail, qa_pairs, walks,
                   book, idx, fails, invoked, all_qa_pairs>>

\* extract_qa_chinese.py main: the else branch of `if qa_pairs`
WarnNoPairs ==
    /\ pc = "for item"
    /\ idx > Len(book)
    /\ ~ShouldSave(variant, all_qa_pairs)
    /\ log' = Append(log, "warning: no pairs")
    /\ pc' = "done"
    /\ UNCHANGED <<variant, text, cleaned, recleaned, doc, fail, qa_pairs, walks,
                   book, idx, fails, invoked, all_qa_pairs, writes>>

Next == ReadEpub \/ ProcessItem \/ SaveQaToJson \/ WarnNoPairs

Spec == Init /\ [][Next]_vars

(***************************************************************************)
(* What the claims speak of, stated over the tree and not over the loops.  *)
(***************************************************************************)
Contains(s, sub) ==
    \E k \in 1..(Len(s) + 1) :
        /\ k + Len(sub) <= Len(s) + 1
        /\ SubSeq(s, k, k + Len(sub) - 1) = sub

Tokens(node) == { node.class[k] : k \in 1..Len(node.class) }

\* the heading signature of a variant
SignatureMatch(v, node) ==
    IF v = Generic
    THEN /\ node.name \in {"h2", "h3", "h4"}
         /\ \E c \in Tokens(node) :
               Contains(Lower(c), S_heading) \/ Contains(Lower(c), S_title)
    ELSE /\ node.name \in {"h2", "h3"}
         /\ \E c \in Tokens(node) : Contains(c, S_second_title)

FollowingSiblings(d, h) == { j \in (h + 1)..Len(d) : d[j].parent = d[h].parent }

\* the first following sibling of h that matches the signature (past the end
\* of the document when there is none)
NextHeading(v, d, h) ==
    LET m == { j \in FollowingSiblings(d, h) : SignatureMatch(v, d[j]) }
    IN  IF m = {} THEN Len(d) + 1 ELSE CHOOSE j \in m : \A k \in m : j <= k

\* a paragraph the variant accepts as answer text
EligibleParagraph(v, node) ==
    /\ node.name = "p"
    /\ v = Chinese => S_bodycontent_text \in Tokens(node)
    /\ clean_text(node.text) # <<>>

AnswerNodes(v, d, h) ==
    { j \in FollowingSiblings(d, h) :
         j < NextHeading(v, d, h) /\ EligibleParagraph(v, d[j]) }

\* the cleaned texts of the nodes of S, in document order, one per line
RECURSIVE JoinedTexts(_, _)
JoinedTexts(d, S) ==
    IF S = {} THEN <<>>
    ELSE LET last == CHOOSE j \in S : \A k \in S : k <= j
         IN  IF S = {last} THEN clean_text(d[last].text)
             ELSE JoinedTexts(d, S \ {last}) \o <<"\n">> \o clean_text(d[last].text)

Returned == pc = "returned" /\ fail = NoFail

EmittedHeadings == { walks[n].heading : n \in 1..Len(walks) }

\* C1: every pair belongs to a matching heading, taken in document order, and
\* its answer is exactly the cleaned texts, joined by newlines in document
\* order, of the eligible paragraphs among the heading's following siblings
\* that come before the first following sibling matching the signature.
AnswerIsSiblingParagraphsUpToNextHeading ==
    Returned =>
        /\ Len(walks) = Len(qa_pairs)
        /\ \A n \in 1..Len(qa_pairs) :
              LET h == walks[n].heading
              IN  /\ h \in 1..Len(doc)
                  /\ SignatureMatch(variant, doc[h])
                  /\ qa_pairs[n].question = clean_text(doc[h].text)
                  /\ qa_pairs[n].answer = JoinedTexts(doc, AnswerNodes(variant, doc, h))
                  /\ \A m \in 1..(n - 1) : walks[m].heading < h

\* the documented sequence H1, P1, P2, H2, P3 gives 'P1\nP2' for H1, 'P3' for H2
SectionsDocExtracted ==
    /\ Returned
    /\ doc = SectionsDoc
    /\ Len(qa_pairs) = 2
    /\ qa_pairs[1].answer = <<"x", " ", "y", "\n", "w">>
    /\ qa_pairs[2].answer = <<"w">>

\* C2: every returned pair has a cleaned question of at least two code points
\* and a non-empty answer; a matching heading whose question is shorter, or
\* that has no eligible paragraph before the next matching heading, has no pair.
EmittedPairsAreNonEmpty ==
    pc = "returned" =>
        /\ \A n \in 1..Len(qa_pairs) :
              /\ qa_pairs[n].question # <<>>
              /\ clean_text(qa_pairs[n].question) = qa_pairs[n].question
              /\ Len(qa_pairs[n].question) >= 2
              /\ qa_pairs[n].answer # <<>>
        /\ \A h \in 1..Len(doc) :
              /\ SignatureMatch(variant, doc[h])
              /\ \/ Len(clean_text(doc[h].text)) < 2
                 \/ AnswerNodes(variant, doc, h) = {}
              => h \notin EmittedHeadings

ShortAndUnansweredDropped ==
    /\ Returned
    /\ \E h \in 1..Len(doc) :
          /\ SignatureMatch(variant, doc[h])
          /\ Len(clean_text(doc[h].text)) < 2
          /\ AnswerNodes(variant, doc, h) # {}
    /\ \E h \in 1..Len(doc) :
          /\ SignatureMatch(variant, doc[h])
          /\ Len(clean_text(doc[h].text)) >= 2
          /\ EndsWith(clean_text(doc[h].text), <<FWQ>>)
          /\ AnswerNodes(variant, doc, h) = {}

\* C3 as stated: in the strict, book-specific variant every returned question
\* ends with the full-width question mark.
StrictQuestionsEndWithQuestionMark ==
    pc = "returned" /\ variant = Chinese =>
        \A n \in 1..Len(qa_pairs) : EndsWith(qa_pairs[n].question, <<FWQ>>)

\* C3 amended: it is the generic variant whose returned questions all end with
\* the full-width question mark, and in which a matching heading whose cleaned
\* text does not end with it has no pair.
GenericQuestionsEndWithQuestionMark ==
    pc = "returned" /\ variant = Generic =>
        /\ \A n \in 1..Len(qa_pairs) : EndsWith(qa_pairs[n].question, <<FWQ>>)
        /\ \A h \in 1..Len(doc) :
              /\ SignatureMatch(variant, doc[h])
              /\ ~EndsWith(clean_text(doc[h].text), <<FWQ>>)
              => h \notin EmittedHeadings

GenericDropsHeadingWithoutQuestionMark ==
    /\ Returned
    /\ variant = Generic
    /\ qa_pairs # <<>>
    /\ \E h \in 1..Len(doc) :
          /\ SignatureMatch(variant, doc[h])
          /\ Len(clean_text(doc[h].text)) >= 2
          /\ ~EndsWith(clean_text(doc[h].text), <<FWQ>>)
          /\ AnswerNodes(variant, doc, h) # {}

\* C6 as stated: a document in whose processing an error is raised
\* contributes no pair.
ErrorYieldsZeroPairs ==
    pc = "returned" /\ fail # NoFail => qa_pairs = <<>>

\* C10: in the strict variant a sibling is collected only if it is a paragraph
\* with the class token bodycontent-text; in both variants a sibling that is
\* not collected and is not the next matching heading does not end the walk,
\* so every eligible paragraph before that heading is collected, in order; in
\* the generic variant the class of a paragraph plays no part.
WalkSkipsOtherSiblings ==
    Returned =>
        \A n \in 1..Len(walks) :
            LET h == walks[n].heading
                ps == walks[n].paragraphs
                stop == NextHeading(variant, doc, h)
            IN  /\ \A k \in 1..Len(ps) :
                      /\ ps[k] \in FollowingSiblings(doc, h)
                      /\ doc[ps[k]].name = "p"
                      /\ variant = Chinese => S_bodycontent_text \in Tokens(doc[ps[k]])
                      /\ \A m \in 1..(k - 1) : ps[m] < ps[k]
                /\ \A j \in FollowingSiblings(doc, h) :
                      /\ j < stop
                      /\ doc[j].name = "p"
                      /\ clean_text(doc[j].text) # <<>>
                      /\ variant = Generic \/ S_bodycontent_text \in Tokens(doc[j])
                      => \E k \in 1..Len(ps) : ps[k] = j

StrictWalkPassesOtherSiblings ==
    /\ Returned
    /\ variant = Chinese
    /\ \E n \in 1..Len(walks) :
          \E k \in 1..Len(walks[n].paragraphs) :
              \E j \in FollowingSiblings(doc, walks[n].heading) :
                  /\ j < walks[n].paragraphs[k]
                  /\ doc[j].name = "p"
                  /\ clean_text(doc[j].text) # <<>>
                  /\ S_bodycontent_text \notin Tokens(doc[j])

\* the positions of the code points of s that are not whitespace
Inked(s) == SelectSeq([k \in 1..Len(s) |-> k], LAMBDA k : ~IsSpace(s[k]))

\* C9: clean_text leaves the non-whitespace code points as they are and in
\* order, puts exactly one space where a run of whitespace separated two of
\* them and nothing before the first or after the last; cleaning the result
\* again changes nothing; ' a \n\n b ' becomes 'a b'; and the heading text
\* and the paragraph text of a document are both cleaned this way before
\* the emptiness and length tests decide whether the pair is returned.
CleanTextCollapsesAndIsIdempotent ==
    LET from == Inked(text)
        to == Inked(cleaned)
    IN  /\ pc # "clean_text" =>
              /\ Len(to) = Len(from)
              /\ \A m \in 1..Len(to) : cleaned[to[m]] = text[from[m]]
              /\ \A k \in 1..Len(cleaned) : IsSpace(cleaned[k]) => cleaned[k] = " "
              /\ Len(to) = 0 => cleaned = <<>>
              /\ Len(to) > 0 => to[1] = 1 /\ to[Len(to)] = Len(cleaned)
              /\ \A m \in 1..(Len(to) - 1) :
                    to[m + 1] - to[m] = (IF from[m + 1] - from[m] > 1 THEN 2 ELSE 1)
              /\ text = ExampleText => cleaned = <<"a", " ", "b">>
        /\ pc \in {"extract_qa_from_html", "returned"} => recleaned = cleaned
        /\ Returned =>
              /\ \A n \in 1..Len(qa_pairs) :
                    /\ qa_pairs[n].question = cleaned
                    /\ qa_pairs[n].answer = cleaned
              /\ Len(cleaned) < 2 => qa_pairs = <<>>
              /\ variant = Chinese /\ Len(cleaned) >= 2 =>
                    qa_pairs = << [question |-> cleaned, answer |-> cleaned] >>

ExampleTextCleanedAndExtracted ==
    /\ Returned
    /\ variant = Chinese
    /\ text = ExampleText
    /\ cleaned = <<"a", " ", "b">>
    /\ recleaned = cleaned
    /\ qa_pairs = << [question |-> cleaned, answer |-> cleaned] >>

(***************************************************************************)
(* The run of main().  fails holds one entry for every item the loop has   *)
(* been through; invoked holds the indices of the items whose content was  *)
(* decoded.                                                                *)
(***************************************************************************)
Opened == log # <<>> /\ log[1] = "read_epub ok"

\* an entry the package reader retains
RetainedEntry(item) ==
    /\ item.type = ITEM_DOCUMENT
    /\ LET lowered == Lower(item.name)
       IN  \A x \in {S_nav, S_toc, S_content_opf, S_cover} : ~Contains(lowered, x)

\* what the i-th entry of the package hands to the output
Contribution(i) ==
    IF RetainedEntry(book[i]) /\ book[i].utf8
    THEN extract_qa_from_html(variant, book[i].tree, fails[i])
    ELSE <<>>

\* the contributions of the entries from..to, one after the other
RECURSIVE Contributions(_, _)
Contributions(from, to) ==
    IF from > to THEN <<>>
    ELSE Contributions(from, to - 1) \o Contribution(to)

IsPrefix(a, b) == Len(a) <= Len(b) /\ SubSeq(b, 1, Len(a)) = a

\* C4: at every point of the run the accumulated sequence is the pairs of the
\* entries gone through so far, entry after entry in enumeration order, each
\* entry's pairs in the order its document gave them; and a step of the run
\* only ever adds pairs at the end.
AccumulationFollowsEntryOrder ==
    /\ [](Opened => /\ Len(fails) = idx - 1
                    /\ all_qa_pairs = Contributions(1, Len(fails)))
    /\ [][IsPrefix(all_qa_pairs, all_qa_pairs')]_vars

ThreeEntriesAccumulated ==
    /\ pc = "done"
    /\ book = <<ChapterA, ChapterB, ChapterA>>
    /\ fails = <<NoFail, NoFail, NoFail>>
    /\ Len(all_qa_pairs) = 4
    /\ all_qa_pairs[1].answer = <<"x", " ", "y">>
    /\ all_qa_pairs[2].answer = <<"w">>
    /\ all_qa_pairs[3].answer = <<"w", "\n", "x", " ", "y">>
    /\ all_qa_pairs[4].answer = <<"x", " ", "y">>

\* C5: a retained entry whose content is not valid UTF-8 adds no pair, the
\* pairs of the entries before it stay as they were, the entries after it
\* add theirs, and the loop goes through every entry of the package.
DecodeFailureSkipsOnlyThatEntry ==
    Opened =>
        /\ \A i \in 1..Len(fails) :
              RetainedEntry(book[i]) /\ ~book[i].utf8 =>
                  /\ all_qa_pairs =
                        Contributions(1, i - 1) \o Contributions(i + 1, Len(fails))
                  /\ \E k \in 1..Len(log) : log[k] = "item error"
        /\ pc = "for item" => Len(fails) = idx - 1 /\ idx <= Len(book) + 1
        /\ pc = "done" => Len(fails) = Len(book)

BrokenEntryBetweenTwoChapters ==
    /\ pc = "done"
    /\ book = <<ChapterA, Broken, ChapterB>>
    /\ fails = <<NoFail, NoFail, NoFail>>
    /\ Len(all_qa_pairs) = 3
    /\ all_qa_pairs[1].answer = <<"x", " ", "y">>
    /\ all_qa_pairs[2].answer = <<"w">>
    /\ all_qa_pairs[3].answer = <<"w", "\n", "x", " ", "y">>

\* C7 as stated: a run whose package opened ends with exactly one write, of
\* the whole accumulated sequence, whatever that sequence is.
RunEndsWithOneWrite ==
    pc = "done" /\ Opened =>
        Len(writes) = 1 /\ writes[1].array = all_qa_pairs

\* C7 amended: nothing is written before every entry has been gone through;
\* a run whose package opened ends with exactly one write of the whole
\* accumulated sequence, except that extract_qa_chinese.py, when the sequence
\* is empty, logs a warning and writes nothing; a run whose package failed
\* to open logs the error and writes nothing; a failed write is logged by
\* save_qa_to_json and, re-raised, by main.
OutputWrittenOnceAtEnd ==
    /\ writes # <<>> =>
          /\ pc = "done"
          /\ Len(fails) = Len(book)
          /\ Len(writes) = 1
          /\ writes[1].array = all_qa_pairs
          /\ ~writes[1].ok =>
                \E k \in 1..(Len(log) - 1) :
                    log[k] = "save error" /\ log[k + 1] = "main error"
    /\ pc = "done" /\ Opened =>
          IF variant = Generic \/ all_qa_pairs # <<>>
          THEN Len(writes) = 1
          ELSE writes = <<>> /\ log[Len(log)] = "warning: no pairs"
    /\ pc = "done" /\ ~Opened =>
          writes = <<>> /\ log = <<"read_epub error", "main error">>

EmptyStrictRunWritesNothing ==
    /\ pc = "done"
    /\ variant = Chinese
    /\ book = <<Preface, Broken, NavPage>>
    /\ all_qa_pairs = <<>>
    /\ writes = <<>>
    /\ log[Len(log)] = "warning: no pairs"

\* C8: the loop decodes and extracts an entry exactly when its type is
\* ITEM_DOCUMENT and its lower-cased name contains none of 'nav', 'toc',
\* 'content.opf', 'cover'; a package without such an entry gives no pair.
OnlyRetainedEntriesAreExtracted ==
    Opened =>
        LET retained == { i \in 1..Len(book) : RetainedEntry(book[i]) }
        IN  /\ \A i \in 1..Len(fails) :
                  (\E k \in 1..Len(invoked) : invoked[k] = i) <=> i \in retained
            /\ \A i \in 1..Len(book) : is_content_item(book[i]) <=> i \in retained
            /\ retained \cap 1..Len(fails) = {} => all_qa_pairs = <<>>

ExcludedEntriesPassedOver ==
    /\ pc = "done"
    /\ book = <<NavPage, Picture, ChapterA>>
    /\ invoked = <<3>>
    /\ Len(all_qa_pairs) = 1

====
